---- MODULE Spec2Model ----
(***************************************************************************)
(* hackfed/toolbox: the check-registry and generate-telephony commands.    *)
(*                                                                         *)
(* The registry is a directory of organization record files.  The command  *)
(* generate-telephony writes the telephony directory of the records to a   *)
(* file and checks nothing (second part of the module).  check-registry    *)
(* loads every file (checkOrganization), assembles them in a map keyed by  *)
(* spec.id (checkOrganizations), then runs the Nebula checker and the      *)
(* Telephony checker over the map.  Every violation ends the process with  *)
(* process.exit(1) after one logger.error call; an exception nobody        *)
(* catches ends it with a non-zero status and no logger call.              *)
(*                                                                         *)
(* Text is modelled by its structure so that parsing is computed:          *)
(*   - an address literal is its separator syntax and its groups, with     *)
(*     Compress standing for the "::" of an IPv6 literal;                  *)
(*   - a host[:port] string is its host and its port, NoPort when there    *)
(*     is no ":port" suffix.                                               *)
(***************************************************************************)
EXTENDS Integers, Sequences, FiniteSets, TLC

VARIABLES
    files,          \* the record files of <registry>/orgs, in glob.scan order
    pc,             \* position of checkOrganizations
    fileIdx,        \* next file of the glob.scan loop
    orgs,           \* OrganizationMap: entries in insertion order
    orgIdx,         \* next entry of the `for (const [, org] of context.orgs)` loop
    nodeIdx,        \* next node of the `for (const nebulaNode ...)` loop
    addresses,      \* checkNebulaService: Set<string> of addresses seen
    telPhase,       \* checkTelephonyService: "org", "exchanges" or "prefixes"
    itemIdx,        \* next exchange or prefix of the inner loop
    prefixes,       \* checkTelephonyService: global Set<string> of prefixes
    orgExchanges,   \* checkTelephonyService: per-organization exchange ids
    orgPrefixes,    \* checkTelephonyService: per-organization prefixes
    log,            \* the logger calls made so far
    exitStatus,     \* "running", "zero" or "nonzero"
    uncaught,       \* the exception that ended the process, or "none"
    directory,      \* generate-telephony: the `orgs` array of the directory
    outFile,        \* generate-telephony: the file at options.output
    run,            \* generate-telephony: the invocation under way
    written         \* generate-telephony: what each invocation wrote

vars == <<files, pc, fileIdx, orgs, orgIdx, nodeIdx, addresses, telPhase,
          itemIdx, prefixes, orgExchanges, orgPrefixes, log, exitStatus,
          uncaught, directory, outFile, run, written>>

\* The state of the generate-telephony command, which check-registry never
\* touches, and the state of the checkers, which generate-telephony never
\* touches.
genVars == <<directory, outFile, run, written>>
checkVars == <<orgs, orgIdx, nodeIdx, addresses, telPhase, itemIdx, prefixes,
               orgExchanges, orgPrefixes, uncaught>>

\* The file at options.output when it does not exist.
NoFile == [exists |-> FALSE, text |-> <<>>]

----------------------------------------------------------------------------
(* Bounds of the model.                                                    *)

MaxOrgs == 2        \* record files in the registry
MaxNodes == 2       \* Nebula nodes declared in the whole registry
MaxTelItems == 4    \* exchanges and prefixes declared in the whole registry

----------------------------------------------------------------------------
(* Program constants.                                                      *)

SupportedApiVersion == "hackfed/v1"

\* 'fd79:7636:1f08:883d::/64'
PrefixGroups == <<64889, 30262, 7944, 34877>>
PrefixBits == 64

Compress == -1      \* the "::" of an IPv6 literal
NoPort == -1        \* a host without ":port"
MaxPortNumber == 65535
HextetBits == 16
OctetBits == 8

----------------------------------------------------------------------------
(* ipaddr.js, as the checker uses it.                                      *)

RECURSIVE Zeros(_)
Zeros(n) == IF n <= 0 THEN <<>> ELSE <<0>> \o Zeros(n - 1)

RECURSIVE Pow2(_)
Pow2(n) == IF n <= 0 THEN 1 ELSE 2 * Pow2(n - 1)

Positions(s, x) == {k \in 1..Len(s) : s[k] = x}

\* An IPv6 literal: eight hextets, or fewer with one "::" standing for the
\* missing zero hextets.
IsIPv6Literal(a) ==
    /\ a.syntax = "colon"
    /\ \A k \in 1..Len(a.groups) :
           a.groups[k] = Compress \/ a.groups[k] \in 0..(Pow2(HextetBits) - 1)
    /\ LET marks == Positions(a.groups, Compress)
       IN  \/ marks = {} /\ Len(a.groups) = 8
           \/ Cardinality(marks) = 1 /\ Len(a.groups) <= 8

IsIPv4Literal(a) ==
    /\ a.syntax = "dotted"
    /\ Len(a.groups) = 4
    /\ \A k \in 1..4 : a.groups[k] \in 0..(Pow2(OctetBits) - 1)

\* The eight parts of an IPv6 literal.
ExpandIPv6(g) ==
    LET marks == Positions(g, Compress)
    IN  IF marks = {} THEN g
        ELSE LET m == CHOOSE k \in marks : TRUE
             IN  SubSeq(g, 1, m - 1) \o Zeros(8 - (Len(g) - 1))
                     \o SubSeq(g, m + 1, Len(g))

\* ipaddr.parse(string): the parsed address, or ok = FALSE when it throws.
ParseAddress(a) ==
    IF IsIPv6Literal(a)
    THEN [ok |-> TRUE, kind |-> "ipv6", parts |-> ExpandIPv6(a.groups)]
    ELSE IF IsIPv4Literal(a)
    THEN [ok |-> TRUE, kind |-> "ipv4", parts |-> a.groups]
    ELSE [ok |-> FALSE, kind |-> "none", parts |-> <<>>]

\* ipaddr.parseCIDR(HACKFED_NET_TELEPHONY_PREFIX)
HackfedPrefix ==
    [addr |-> ParseAddress([syntax |-> "colon",
                            groups |-> PrefixGroups \o <<Compress>>]),
     bits |-> PrefixBits]

\* matchCIDR(first, second, partSize, cidrBits) of ipaddr.js
RECURSIVE MatchCIDR(_, _, _, _, _)
MatchCIDR(first, second, partSize, cidrBits, part) ==
    IF cidrBits <= 0 THEN TRUE
    ELSE LET shift == IF partSize - cidrBits < 0 THEN 0 ELSE partSize - cidrBits
         IN  IF first[part] \div Pow2(shift) # second[part] \div Pow2(shift)
             THEN FALSE
             ELSE MatchCIDR(first, second, partSize, cidrBits - partSize, part + 1)

\* Match with the part size of the other family.
MatchWrongPartSize(addr, prefix) ==
    IF addr.kind # prefix.addr.kind THEN "throws"
    ELSE IF MatchCIDR(addr.parts, prefix.addr.parts,
                      IF addr.kind = "ipv6" THEN OctetBits ELSE HextetBits,
                      prefix.bits, 1)
    THEN "true" ELSE "false"

\* addr.match(prefix): "true", "false", or "throws" when the two addresses
\* are of different families.
Match(addr, prefix) ==
    IF addr.kind # prefix.addr.kind THEN "throws"
    ELSE IF MatchCIDR(addr.parts, prefix.addr.parts,
                      IF addr.kind = "ipv6" THEN HextetBits ELSE OctetBits,
                      prefix.bits, 1)
    THEN "true" ELSE "false"

----------------------------------------------------------------------------
(* new URL(`${scheme}://${hostport}`) for a scheme without a default port. *)

\* ok = FALSE when the constructor throws; port is url.port, "" when the
\* string has no port.
ParseURL(hp) ==
    IF hp.host = "" \/ hp.port > MaxPortNumber
    THEN [ok |-> FALSE, port |-> ""]
    ELSE [ok |-> TRUE, port |-> IF hp.port = NoPort THEN "" ELSE ToString(hp.port)]

----------------------------------------------------------------------------
(* The registries the model runs on.                                       *)

Address(syntax, groups) == [syntax |-> syntax, groups |-> groups]

\* "fd79:7636:1f08:883d::<k>"
InNet(k) == Address("colon", PrefixGroups \o <<Compress, k>>)
\* "fd79:7636:1f08:883d:0:0:0:<k>", the same address written in full
InNetLong(k) == Address("colon", PrefixGroups \o <<0, 0, 0, k>>)
\* "fd79:7636:ffff::1"
OutOfNet == Address("colon", <<64889, 30262, 65535, Compress, 1>>)
\* "10.0.0.1"
IPv4Addr == Address("dotted", <<10, 0, 0, 1>>)
\* "not-an-ip"
NotAnAddress == Address("other", <<>>)

AddressPool == {InNet(1), InNetLong(1), InNet(2), OutOfNet, IPv4Addr, NotAnAddress}

HostPort(host, port) == [host |-> host, port |-> port]

EndpointOK == HostPort("lh.example", 4242)       \* "lh.example:4242"
EndpointNoPort == HostPort("lh.example", NoPort) \* "lh.example"
EndpointBad == HostPort("lh.example", 99999)     \* "lh.example:99999"

ExchangeAddrOK == HostPort("10.0.0.1", 5060)      \* "10.0.0.1:5060"
ExchangeAddrNoPort == HostPort("10.0.0.1", NoPort)
ExchangeAddrBad == HostPort("10.0.0.1", 99999)

\* The files of <registry>/nebula/certificates, without ".crt".
CertFiles == {"fp1"}

Node(address, certificates, hasEndpoints, endpoints) ==
    [address |-> address, certificates |-> certificates,
     hasEndpoints |-> hasEndpoints, endpoints |-> endpoints]

\* Every address with a present certificate and no lighthouse; an
\* in-network address with every certificate list and every endpoint list.
NodePool ==
    {Node(a, <<"fp1">>, FALSE, <<>>) : a \in AddressPool}
    \cup {Node(InNet(2), c, FALSE, <<>>) :
             c \in {<<>>, <<"fp2">>, <<"fp1", "fp2">>}}
    \cup {Node(InNet(2), <<"fp1">>, TRUE, e) :
             e \in {<<EndpointOK>>, <<EndpointNoPort>>, <<EndpointBad>>,
                    <<EndpointOK, EndpointNoPort>>}}

Exchange(id, address) == [id |-> id, address |-> address]

ExchangePool ==
    {Exchange("ex1", ExchangeAddrOK), Exchange("ex2", ExchangeAddrOK),
     Exchange("ex1", ExchangeAddrNoPort), Exchange("ex1", ExchangeAddrBad)}

Prefix(prefix, exchange) == [prefix |-> prefix, exchange |-> exchange]

PrefixPool == {Prefix("555", "ex1"), Prefix("555", "ex2"), Prefix("1", "ex1")}

\* services.nebula: absent, or a list of nodes.
Nebula(present, nodes) == [present |-> present, nodes |-> nodes]
NoNebula == Nebula(FALSE, <<>>)

\* services.telephony: absent, or a record whose exchanges and prefixes are
\* each absent or a list.
Telephony(present, hasExchanges, exchanges, hasPrefixes, prefixList) ==
    [present |-> present,
     hasExchanges |-> hasExchanges, exchanges |-> exchanges,
     hasPrefixes |-> hasPrefixes, prefixes |-> prefixList]
NoTelephony == Telephony(FALSE, FALSE, <<>>, FALSE, <<>>)

\* A list of the registry is written out when it has elements and left out
\* when it has none; ShapePool has the empty lists.
NebulaOf(nodes) == Nebula(nodes # <<>>, nodes)
TelephonyOf(exchanges, prefixList) ==
    Telephony(exchanges # <<>> \/ prefixList # <<>>,
              exchanges # <<>>, exchanges, prefixList # <<>>, prefixList)

FileNames == <<"acme", "bolt", "core", "dune">>

\* One record file: its base name and the parsed record.
OrgFile(fileName, apiVersion, metaId, specId, nebula, telephony) ==
    [fileName |-> fileName, apiVersion |-> apiVersion,
     metadata |-> [orgId |-> metaId],
     spec |-> [id |-> specId, nebula |-> nebula, telephony |-> telephony]]

GoodFile(k, nebula, telephony) ==
    OrgFile(FileNames[k], SupportedApiVersion, FileNames[k], FileNames[k],
            nebula, telephony)

\* How many list elements each of n organizations declares, at most
\* `total` in all.
RECURSIVE Sum(_, _)
Sum(lens, n) == IF n = 0 THEN 0 ELSE Sum(lens, n - 1) + lens[n]

Shapes(n, total) == {lens \in [1..n -> 0..total] : Sum(lens, n) <= total}

\* The list of the k-th organization, cut from the elements of all.
Cut(flat, lens, k) == SubSeq(flat, Sum(lens, k - 1) + 1, Sum(lens, k))

\* A registry that varies the Nebula declarations.
NebulaRegistry(n, lens, nodes) ==
    [k \in 1..n |-> GoodFile(k, NebulaOf(Cut(nodes, lens, k)), NoTelephony)]

\* A registry that varies the telephony declarations.
TelephonyRegistry(n, exLens, exchanges, prLens, prefixList) ==
    [k \in 1..n |->
        GoodFile(k, NoNebula, TelephonyOf(Cut(exchanges, exLens, k),
                                          Cut(prefixList, prLens, k)))]

\* Whole records for the k-th file: a valid declaration of both services
\* and one with a violation in each.
PrefixOfFile == <<"555", "1", "2", "3">>
GoodNebula(k) == Nebula(TRUE, <<Node(InNet(k), <<"fp1">>, TRUE, <<EndpointOK>>)>>)
BadNebula == Nebula(TRUE, <<Node(OutOfNet, <<"fp2">>, TRUE, <<EndpointBad>>)>>)
GoodTelephony(k) ==
    Telephony(TRUE, TRUE, <<Exchange("ex1", ExchangeAddrOK)>>,
              TRUE, <<Prefix(PrefixOfFile[k], "ex1")>>)
BadTelephony(k) ==
    Telephony(TRUE, FALSE, <<>>, TRUE, <<Prefix(PrefixOfFile[k], "ex1")>>)

GoodContent(k) == [nebula |-> GoodNebula(k), telephony |-> GoodTelephony(k)]
BadContent(k) == [nebula |-> BadNebula, telephony |-> BadTelephony(k)]

\* Records that declare nothing, or empty lists, or a valid Nebula service
\* with an invalid telephony service.
ShapePool(k) ==
    {[nebula |-> n, telephony |-> t] :
        n \in {NoNebula, Nebula(TRUE, <<>>)},
        t \in {NoTelephony,
               Telephony(TRUE, FALSE, <<>>, FALSE, <<>>),
               Telephony(TRUE, TRUE, <<>>, TRUE, <<>>)}}
    \cup {[nebula |-> GoodNebula(k), telephony |-> BadTelephony(k)]}

\* The identifiers a record of the k-th file may carry: its own base name
\* or another one.
IdPool(k) == {FileNames[k], IF k = 1 THEN FileNames[2] ELSE FileNames[1]}

FilePool(k) ==
    {OrgFile(FileNames[k], v, m, s, c.nebula, c.telephony) :
        v \in {SupportedApiVersion, "hackfed/v2"},
        m \in IdPool(k), s \in IdPool(k), c \in {GoodContent(k), BadContent(k)}}
    \cup {GoodFile(k, c.nebula, c.telephony) : c \in ShapePool(k)}

\* A registry that varies the record headers and mixes the two services.
RECURSIVE RecordRegistries(_)
RecordRegistries(n) ==
    IF n = 0 THEN {<<>>}
    ELSE {Append(r, f) : r \in RecordRegistries(n - 1), f \in FilePool(n)}

----------------------------------------------------------------------------
(* The logger and the ways a step ends.                                    *)

LogEntry(level, msg, subject) == [level |-> level, msg |-> msg, subject |-> subject]

\* What one step of a checker comes to: it passes, it logs an error and
\* calls process.exit(1), or it throws.
Pass == [kind |-> "pass", msg |-> ""]
Exit1(msg) == [kind |-> "exit", msg |-> msg]
Throw(what) == [kind |-> "throw", msg |-> what]

----------------------------------------------------------------------------
(* checkOrganization                                                       *)

\* path.basename(orgPath, path.extname(orgPath))
BaseName(f) == f.fileName

\* OrganizationSchema.parse(raw): the typed record of a schema-valid file.
ParseRecord(f) == [apiVersion |-> f.apiVersion, metadata |-> f.metadata, spec |-> f.spec]

\* CheckOrganization without the comparison of metadata.orgId and spec.id.
CheckOrganizationNoSpecId(f) ==
    LET parsed == ParseRecord(f)
    IN  IF parsed.apiVersion # SupportedApiVersion
        THEN Exit1("Unsupported API version")
        ELSE IF parsed.metadata.orgId # BaseName(f)
        THEN Exit1("metadata orgId mismatch")
        ELSE Pass

\* CheckOrganization without the comparison of metadata.orgId and the base
\* name of the file.
CheckOrganizationNoBaseName(f) ==
    LET parsed == ParseRecord(f)
    IN  IF parsed.apiVersion # SupportedApiVersion
        THEN Exit1("Unsupported API version")
        ELSE IF parsed.metadata.orgId # parsed.spec.id
        THEN Exit1("spec orgId mismatch")
        ELSE Pass

CheckOrganization(f) ==
    LET parsed == ParseRecord(f)
    IN  IF parsed.apiVersion # SupportedApiVersion
        THEN Exit1("Unsupported API version")
        ELSE IF parsed.metadata.orgId # BaseName(f)
        THEN Exit1("metadata orgId mismatch")
        ELSE IF parsed.metadata.orgId # parsed.spec.id
        THEN Exit1("spec orgId mismatch")
        ELSE Pass

\* orgs.set(key, org): a Map keeps the place of a key it already holds.
MapSet(m, key, org) ==
    IF \E k \in 1..Len(m) : m[k].spec.id = key
    THEN [k \in 1..Len(m) |-> IF m[k].spec.id = key THEN org ELSE m[k]]
    ELSE Append(m, org)

\* IsEmptyRegistry when the size test is lost.
IsEmptyRegistryNever(m) == FALSE

\* orgs.size === 0
IsEmptyRegistry(m) == Len(m) = 0

----------------------------------------------------------------------------
(* checkNebulaService: the body of the loop over the nodes.                *)

\* AddressSeen when the set of addresses is not consulted.
AddressSeenNever(address, seen) == FALSE

\* addresses.has(nebulaNode.address)
AddressSeen(address, seen) == address \in seen

\* CertificateExists when the probe is not awaited: a promise is truthy.
CertificateExistsAlways(fingerprint) == TRUE

\* await Bun.file(certPath).exists()
CertificateExists(fingerprint) == fingerprint \in CertFiles

\* url.port, as `!url.port` reads it
HasPort(url) == url.port # ""

\* The first fingerprint of the list without a file, or 0.
FirstMissingCertificate(certificates) ==
    LET missing == {k \in 1..Len(certificates) : ~CertificateExists(certificates[k])}
    IN  IF missing = {} THEN 0 ELSE CHOOSE k \in missing : \A j \in missing : k <= j

EndpointIsGood(endpoint) ==
    LET url == ParseURL(endpoint) IN url.ok /\ HasPort(url)

\* The first endpoint of the list that is rejected, or 0.
FirstBadEndpoint(endpoints) ==
    LET bad == {k \in 1..Len(endpoints) : ~EndpointIsGood(endpoints[k])}
    IN  IF bad = {} THEN 0 ELSE CHOOSE k \in bad : \A j \in bad : k <= j

CheckNode(node, seen) ==
    LET addr == ParseAddress(node.address)
    IN  IF ~addr.ok THEN Throw("ipaddr.parse")
        ELSE LET matched == Match(addr, HackfedPrefix)
             IN  IF matched = "throws" THEN Throw("addr.match")
                 ELSE IF matched = "false" THEN Exit1("invalid Nebula address")
                 ELSE IF AddressSeen(node.address, seen)
                 THEN Exit1("duplicate Nebula address found")
                 ELSE IF FirstMissingCertificate(node.certificates) # 0
                 THEN Exit1("Nebula certificate not found")
                 ELSE IF node.hasEndpoints /\ FirstBadEndpoint(node.endpoints) # 0
                 THEN IF ParseURL(node.endpoints[FirstBadEndpoint(node.endpoints)]).ok
                      THEN Exit1("Lighthouse endpoint missing port")
                      ELSE Exit1("invalid Lighthouse endpoint URL")
                 ELSE Pass

----------------------------------------------------------------------------
(* checkTelephonyService: the bodies of the loops over exchanges and       *)
(* prefixes.                                                               *)

\* NewOrgExchanges when the set is created once, before the loop over the
\* organizations.
NewOrgExchangesCarried(previous) == previous

\* `const orgExchanges = new Set<string>()` inside the loop over the
\* organizations: the set of the previous organization is dropped.
NewOrgExchanges(previous) == {}

\* ExchangeSeen when the duplicate test is lost.
ExchangeSeenNever(id, seen) == FALSE

\* orgExchanges.has(exchange.id)
ExchangeSeen(id, seen) == id \in seen

\* PrefixSeenGlobally when the test against the global set is lost.
PrefixSeenGloballyNever(prefix, seen) == FALSE

\* prefixes.has(prefix.prefix)
PrefixSeenGlobally(prefix, seen) == prefix \in seen

\* orgPrefixes.has(prefix.prefix)
PrefixSeenInOrg(prefix, seen) == prefix \in seen

\* orgExchanges.has(prefix.exchange)
ExchangeKnown(id, declared) == id \in declared

\* AddPrefix when the call of add is lost.
AddPrefixLost(seen, prefix) == seen

\* prefixes.add(prefix.prefix)
AddPrefix(seen, prefix) == seen \cup {prefix}

CheckExchange(exchange, seen) ==
    IF ExchangeSeen(exchange.id, seen)
    THEN Exit1("duplicate Telephony exchange ID found")
    ELSE LET url == ParseURL(exchange.address)
         IN  IF ~url.ok THEN Exit1("invalid Exchange address URL")
             ELSE IF ~HasPort(url) THEN Exit1("Exchange address missing port")
             ELSE Pass

CheckPrefix(prefix, seenGlobally, seenInOrg, declared) ==
    IF PrefixSeenGlobally(prefix.prefix, seenGlobally)
    THEN Exit1("duplicate Telephony prefix found")
    ELSE IF PrefixSeenInOrg(prefix.prefix, seenInOrg)
    THEN Exit1("duplicate Telephony prefix found within organization")
    ELSE IF ~ExchangeKnown(prefix.exchange, declared)
    THEN Exit1("Telephony prefix references unknown exchange")
    ELSE Pass

----------------------------------------------------------------------------
(* The check-registry command as a state machine.                          *)

Init ==
    /\ \E n \in 0..MaxOrgs :
          \/ \E lens \in Shapes(n, MaxNodes) :
                \E nodes \in [1..Sum(lens, n) -> NodePool] :
                    files = NebulaRegistry(n, lens, nodes)
          \/ \E exLens \in Shapes(n, MaxTelItems) :
                \E prLens \in Shapes(n, MaxTelItems - Sum(exLens, n)) :
                    \E exchanges \in [1..Sum(exLens, n) -> ExchangePool] :
                        \E prefixList \in [1..Sum(prLens, n) -> PrefixPool] :
                            files = TelephonyRegistry(n, exLens, exchanges,
                                                      prLens, prefixList)
          \/ files \in RecordRegistries(n)
    /\ pc = "start"
    /\ fileIdx = 1
    /\ orgs = <<>>
    /\ orgIdx = 1
    /\ nodeIdx = 1
    /\ addresses = {}
    /\ telPhase = "org"
    /\ itemIdx = 1
    /\ prefixes = {}
    /\ orgExchanges = {}
    /\ orgPrefixes = {}
    /\ log = <<>>
    /\ exitStatus = "running"
    /\ uncaught = "none"
    /\ directory = <<>>
    /\ outFile = NoFile
    /\ run = 1
    /\ written = <<>>

Running == exitStatus = "running"

\* A step that did not pass: process.exit(1) after logger.error, or an
\* exception that no caller catches.
Fail(result, subject) ==
    /\ exitStatus' = "nonzero"
    /\ IF result.kind = "exit"
       THEN /\ log' = Append(log, LogEntry("error", result.msg, subject))
            /\ uncaught' = "none"
       ELSE /\ log' = log
            /\ uncaught' = result.msg

\* checkRegistry
CheckRegistry ==
    /\ Running /\ pc = "start"
    /\ log' = Append(log, LogEntry("info", "Checking registry at", ""))
    /\ pc' = "load"
    /\ UNCHANGED <<files, fileIdx, orgs, orgIdx, nodeIdx, addresses, telPhase,
                   itemIdx, prefixes, orgExchanges, orgPrefixes, exitStatus,
                   uncaught>>
    /\ UNCHANGED genVars

\* One turn of the glob.scan loop: checkOrganization, then orgs.set.
LoadFile ==
    /\ Running /\ pc = "load" /\ fileIdx <= Len(files)
    /\ LET f == files[fileIdx]
           result == CheckOrganization(f)
           debug == Append(log, LogEntry("debug", "Checking organization file", BaseName(f)))
       IN  IF result.kind = "pass"
           THEN /\ log' = debug
                /\ orgs' = MapSet(orgs, ParseRecord(f).spec.id, ParseRecord(f))
                /\ fileIdx' = fileIdx + 1
                /\ UNCHANGED <<exitStatus, uncaught>>
           ELSE /\ log' = Append(debug, LogEntry("error", result.msg, BaseName(f)))
                /\ exitStatus' = "nonzero"
                /\ UNCHANGED <<orgs, fileIdx, uncaught>>
    /\ UNCHANGED <<files, pc, orgIdx, nodeIdx, addresses, telPhase, itemIdx,
                   prefixes, orgExchanges, orgPrefixes>>
    /\ UNCHANGED genVars

\* After the loop: the warning and process.exit(0) for an empty map, else
\* the call of checkNebulaService.
Assembled ==
    /\ Running /\ pc = "load" /\ fileIdx > Len(files)
    /\ IF IsEmptyRegistry(orgs)
       THEN /\ log' = Append(log, LogEntry("warn", "No organizations found in registry!", ""))
            /\ exitStatus' = "zero"
            /\ UNCHANGED <<pc, addresses, orgIdx, nodeIdx>>
       ELSE /\ pc' = "nebula"
            /\ addresses' = {}
            /\ orgIdx' = 1
            /\ nodeIdx' = 1
            /\ UNCHANGED <<log, exitStatus>>
    /\ UNCHANGED <<files, fileIdx, orgs, telPhase, itemIdx, prefixes,
                   orgExchanges, orgPrefixes, uncaught>>
    /\ UNCHANGED genVars

AtNebulaOrg == Running /\ pc = "nebula" /\ orgIdx <= Len(orgs)

AtNebulaNode ==
    /\ AtNebulaOrg
    /\ orgs[orgIdx].spec.nebula.present
    /\ nodeIdx <= Len(orgs[orgIdx].spec.nebula.nodes)

\* The body of the loop over the nodes of one organization.
NebulaNode ==
    /\ AtNebulaNode
    /\ LET org == orgs[orgIdx]
           node == org.spec.nebula.nodes[nodeIdx]
           result == CheckNode(node, addresses)
       IN  IF result.kind = "pass"
           THEN /\ addresses' = addresses \cup {node.address}
                /\ nodeIdx' = nodeIdx + 1
                /\ UNCHANGED <<log, exitStatus, uncaught>>
           ELSE /\ Fail(result, org.spec.id)
                /\ UNCHANGED <<addresses, nodeIdx>>
    /\ UNCHANGED <<files, pc, fileIdx, orgs, orgIdx, telPhase, itemIdx,
                   prefixes, orgExchanges, orgPrefixes>>
    /\ UNCHANGED genVars

\* `continue` for an organization without services.nebula, or the end of
\* its nodes.
NebulaNextOrg ==
    /\ AtNebulaOrg /\ ~AtNebulaNode
    /\ orgIdx' = orgIdx + 1
    /\ nodeIdx' = 1
    /\ UNCHANGED <<files, pc, fileIdx, orgs, addresses, telPhase, itemIdx,
                   prefixes, orgExchanges, orgPrefixes, log, exitStatus,
                   uncaught>>
    /\ UNCHANGED genVars

\* checkNebulaService returns; checkTelephonyService is called.
NebulaDone ==
    /\ Running /\ pc = "nebula" /\ orgIdx > Len(orgs)
    /\ pc' = "telephony"
    /\ prefixes' = {}
    /\ orgIdx' = 1
    /\ telPhase' = "org"
    /\ itemIdx' = 1
    /\ UNCHANGED <<files, fileIdx, orgs, nodeIdx, addresses, orgExchanges,
                   orgPrefixes, log, exitStatus, uncaught>>
    /\ UNCHANGED genVars

AtTelephonyOrg == Running /\ pc = "telephony" /\ orgIdx <= Len(orgs)

\* The head of the loop over the organizations: `continue` without
\* services.telephony, else two new per-organization sets.
TelephonyOrg ==
    /\ AtTelephonyOrg /\ telPhase = "org"
    /\ IF ~orgs[orgIdx].spec.telephony.present
       THEN /\ orgIdx' = orgIdx + 1
            /\ UNCHANGED <<telPhase, itemIdx, orgExchanges, orgPrefixes>>
       ELSE /\ orgExchanges' = NewOrgExchanges(orgExchanges)
            /\ orgPrefixes' = {}
            /\ telPhase' = "exchanges"
            /\ itemIdx' = 1
            /\ UNCHANGED orgIdx
    /\ UNCHANGED <<files, pc, fileIdx, orgs, nodeIdx, addresses, prefixes,
                   log, exitStatus, uncaught>>
    /\ UNCHANGED genVars

AtExchange ==
    /\ AtTelephonyOrg /\ telPhase = "exchanges"
    /\ orgs[orgIdx].spec.telephony.hasExchanges
    /\ itemIdx <= Len(orgs[orgIdx].spec.telephony.exchanges)

\* The body of the loop over the exchanges of one organization.
TelephonyExchange ==
    /\ AtExchange
    /\ LET org == orgs[orgIdx]
           exchange == org.spec.telephony.exchanges[itemIdx]
           result == CheckExchange(exchange, orgExchanges)
       IN  IF result.kind = "pass"
           THEN /\ orgExchanges' = orgExchanges \cup {exchange.id}
                /\ itemIdx' = itemIdx + 1
                /\ UNCHANGED <<log, exitStatus, uncaught>>
           ELSE /\ Fail(result, org.spec.id)
                /\ UNCHANGED <<orgExchanges, itemIdx>>
    /\ UNCHANGED <<files, pc, fileIdx, orgs, orgIdx, nodeIdx, addresses,
                   telPhase, prefixes, orgPrefixes>>
    /\ UNCHANGED genVars

\* The exchanges are absent or all checked: on to the prefixes.
TelephonyExchangesDone ==
    /\ AtTelephonyOrg /\ telPhase = "exchanges" /\ ~AtExchange
    /\ telPhase' = "prefixes"
    /\ itemIdx' = 1
    /\ UNCHANGED <<files, pc, fileIdx, orgs, orgIdx, nodeIdx, addresses,
                   prefixes, orgExchanges, orgPrefixes, log, exitStatus,
                   uncaught>>
    /\ UNCHANGED genVars

AtPrefix ==
    /\ AtTelephonyOrg /\ telPhase = "prefixes"
    /\ orgs[orgIdx].spec.telephony.hasPrefixes
    /\ itemIdx <= Len(orgs[orgIdx].spec.telephony.prefixes)

\* The body of the loop over the prefixes of one organization.
TelephonyPrefix ==
    /\ AtPrefix
    /\ LET org == orgs[orgIdx]
           prefix == org.spec.telephony.prefixes[itemIdx]
           result == CheckPrefix(prefix, prefixes, orgPrefixes, orgExchanges)
       IN  IF result.kind = "pass"
           THEN /\ prefixes' = AddPrefix(prefixes, prefix.prefix)
                /\ orgPrefixes' = orgPrefixes \cup {prefix.prefix}
                /\ itemIdx' = itemIdx + 1
                /\ UNCHANGED <<log, exitStatus, uncaught>>
           ELSE /\ Fail(result, org.spec.id)
                /\ UNCHANGED <<prefixes, orgPrefixes, itemIdx>>
    /\ UNCHANGED <<files, pc, fileIdx, orgs, orgIdx, nodeIdx, addresses,
                   telPhase, orgExchanges>>
    /\ UNCHANGED genVars

\* The prefixes are absent or all checked: on to the next organization.
TelephonyPrefixesDone ==
    /\ AtTelephonyOrg /\ telPhase = "prefixes" /\ ~AtPrefix
    /\ orgIdx' = orgIdx + 1
    /\ telPhase' = "org"
    /\ itemIdx' = 1
    /\ UNCHANGED <<files, pc, fileIdx, orgs, nodeIdx, addresses, prefixes,
                   orgExchanges, orgPrefixes, log, exitStatus, uncaught>>
    /\ UNCHANGED genVars

\* checkTelephonyService returns; the success message; the process ends.
Completed ==
    /\ Running /\ pc = "telephony" /\ orgIdx > Len(orgs)
    /\ log' = Append(log, LogEntry("info", "Registry check completed successfully.", ""))
    /\ pc' = "done"
    /\ exitStatus' = "zero"
    /\ UNCHANGED <<files, fileIdx, orgs, orgIdx, nodeIdx, addresses, telPhase,
                   itemIdx, prefixes, orgExchanges, orgPrefixes, uncaught>>
    /\ UNCHANGED genVars

Next ==
    \/ CheckRegistry
    \/ LoadFile
    \/ Assembled
    \/ NebulaNode
    \/ NebulaNextOrg
    \/ NebulaDone
    \/ TelephonyOrg
    \/ TelephonyExchange
    \/ TelephonyExchangesDone
    \/ TelephonyPrefix
    \/ TelephonyPrefixesDone
    \/ Completed

Spec == Init /\ [][Next]_vars

----------------------------------------------------------------------------
(* hackfed/toolbox: the generate-telephony command.  It reads the same     *)
(* record files, makes no check of its own, and writes the telephony       *)
(* directory as JSON text to options.output.                               *)

\* An exchange with the fields the directory carries.
GenExchange(id, address, protocol, codecs) ==
    [id |-> id, address |-> address, protocol |-> protocol, codecs |-> codecs]

\* Two exchanges that share the id ex1 and differ in everything else, and
\* one with another id.
GenExchangePool ==
    {GenExchange("ex1", ExchangeAddrOK, "sip", <<"opus">>),
     GenExchange("ex1", ExchangeAddrNoPort, "iax", <<"g722", "opus">>),
     GenExchange("ex2", ExchangeAddrOK, "sip", <<>>)}

\* Prefixes of ex1 and ex2, and one that names an exchange nobody declares.
GenPrefixPool ==
    {Prefix("1", "ex1"), Prefix("2", "ex1"), Prefix("1", "ex2"), Prefix("3", "ex9")}

\* services.telephony with its optional lists; phonebook is one more.
GenTelephony(present, hasExchanges, exchanges, hasPrefixes, prefixList, hasPhonebook, phonebook) ==
    [present |-> present,
     hasExchanges |-> hasExchanges, exchanges |-> exchanges,
     hasPrefixes |-> hasPrefixes, prefixes |-> prefixList,
     hasPhonebook |-> hasPhonebook, phonebook |-> phonebook]
NoGenTelephony == GenTelephony(FALSE, FALSE, <<>>, FALSE, <<>>, FALSE, <<>>)

\* One record file with the fields generate-telephony reads.
GenOrgFile(fileName, apiVersion, metaId, specId, name, telephony) ==
    [fileName |-> fileName, apiVersion |-> apiVersion,
     metadata |-> [orgId |-> metaId],
     spec |-> [id |-> specId, name |-> name, telephony |-> telephony]]

DisplayNames == <<"Acme Corp", "Bolt Ltd", "Core Inc", "Dune Co">>

\* A registry of valid record headers that varies the exchanges and the
\* prefixes; a list with no element is left out of the file.
GenRegistry(n, exLens, exchanges, prLens, prefixList) ==
    [k \in 1..n |->
        LET ex == Cut(exchanges, exLens, k)
            pr == Cut(prefixList, prLens, k)
        IN  GenOrgFile(FileNames[k], SupportedApiVersion, FileNames[k],
                       FileNames[k], DisplayNames[k],
                       GenTelephony(ex # <<>> \/ pr # <<>>, ex # <<>>, ex,
                                    pr # <<>>, pr, FALSE, <<>>))]

\* Whole records for the k-th file: any header, also one check-registry
\* rejects or one whose id another file carries, with no telephony
\* service, an empty one, or one with a phone book.
GenFilePool(k) ==
    {GenOrgFile(FileNames[k], v, m, s, DisplayNames[k], t) :
        v \in {SupportedApiVersion, "hackfed/v2"},
        m \in IdPool(k), s \in IdPool(k),
        t \in {NoGenTelephony,
               GenTelephony(TRUE, FALSE, <<>>, FALSE, <<>>, FALSE, <<>>),
               GenTelephony(TRUE, TRUE, <<GenExchange("ex1", ExchangeAddrOK, "sip", <<"opus">>)>>,
                            TRUE, <<Prefix("1", "ex1")>>, TRUE, <<"book1", "book2">>),
               GenTelephony(TRUE, TRUE, <<>>, TRUE, <<Prefix("1", "ex1")>>, TRUE, <<>>)}}

RECURSIVE GenRecordRegistries(_)
GenRecordRegistries(n) ==
    IF n = 0 THEN {<<>>}
    ELSE {Append(r, f) : r \in GenRecordRegistries(n - 1), f \in GenFilePool(n)}


----------------------------------------------------------------------------
(* generateTelephonyDirectory: the Maps and Sets of one loop turn, kept in *)
(* insertion order as JavaScript keeps them.                               *)

\* HasTelephony when the test `!org.spec.services?.telephony` is lost.
HasTelephonyAlways(org) == TRUE

\* org.spec.services?.telephony is there
HasTelephony(org) == org.spec.telephony.present

\* SetAdd when the Set is an array that is pushed to.
SetAddPush(seen, value) == Append(seen, value)

\* Set.add: a value the Set holds is not added again.
SetAdd(seen, value) ==
    IF \E k \in 1..Len(seen) : seen[k] = value THEN seen ELSE Append(seen, value)

\* Map.get(key) ?? default
MapGet(m, key, default) ==
    IF \E k \in 1..Len(m) : m[k].key = key
    THEN m[CHOOSE k \in 1..Len(m) : m[k].key = key].value
    ELSE default

\* Map.set(key, value): a key the Map holds keeps its place.
MapPut(m, key, value) ==
    IF \E k \in 1..Len(m) : m[k].key = key
    THEN [k \in 1..Len(m) |-> IF m[k].key = key
                              THEN [key |-> key, value |-> value] ELSE m[k]]
    ELSE Append(m, [key |-> key, value |-> value])

\* [...m.values()]
MapValues(m) == [k \in 1..Len(m) |-> m[k].value]

\* The loop that fills exchangePrefixes, after n of the prefixes.
RECURSIVE ExchangePrefixes(_, _)
ExchangePrefixes(prefixList, n) ==
    IF n = 0 THEN <<>>
    ELSE LET m == ExchangePrefixes(prefixList, n - 1)
             prefix == prefixList[n]
         IN  MapPut(m, prefix.exchange,
                    SetAdd(MapGet(m, prefix.exchange, <<>>), prefix.prefix))

\* The object put into `exchanges` for one exchange.
DirectoryExchange(exchange, exchangePrefixes) ==
    [codecs |-> exchange.codecs,
     endpoint |-> exchange.address,
     id |-> exchange.id,
     prefixes |-> MapGet(exchangePrefixes, exchange.id, <<>>),
     protocol |-> exchange.protocol]

\* The loop that fills `exchanges`, after n of the exchanges.
RECURSIVE DirectoryExchanges(_, _, _)
DirectoryExchanges(exchangeList, exchangePrefixes, n) ==
    IF n = 0 THEN <<>>
    ELSE MapPut(DirectoryExchanges(exchangeList, exchangePrefixes, n - 1),
                exchangeList[n].id,
                DirectoryExchange(exchangeList[n], exchangePrefixes))

\* The object pushed to `orgs` for one record; `?? []` for a list left out.
DirectoryOrg(org) ==
    LET telephony == org.spec.telephony
        prefixList == IF telephony.hasPrefixes THEN telephony.prefixes ELSE <<>>
        exchangeList == IF telephony.hasExchanges THEN telephony.exchanges ELSE <<>>
        exchangePrefixes == ExchangePrefixes(prefixList, Len(prefixList))
    IN  [exchanges |-> MapValues(DirectoryExchanges(exchangeList, exchangePrefixes,
                                                     Len(exchangeList))),
         name |-> org.spec.name,
         orgId |-> org.spec.id,
         phonebooks |-> IF telephony.hasPhonebook THEN telephony.phonebook ELSE <<>>]

\* JSON.stringify: the text of an object is its members in the order of
\* its keys, each the key and the text of the value; an array is the
\* texts of its elements.
StringifyExchange(e) ==
    <<<<"codecs", e.codecs>>, <<"endpoint", e.endpoint>>, <<"id", e.id>>,
      <<"prefixes", e.prefixes>>, <<"protocol", e.protocol>>>>
StringifyOrg(o) ==
    <<<<"exchanges", [k \in 1..Len(o.exchanges) |-> StringifyExchange(o.exchanges[k])]>>,
      <<"name", o.name>>, <<"orgId", o.orgId>>, <<"phonebooks", o.phonebooks>>>>
Stringify(d) ==
    <<<<"orgs", [k \in 1..Len(d.orgs) |-> StringifyOrg(d.orgs[k])]>>>>

\* WriteFile when the text is appended to the file that is there.
WriteFileAppend(existing, text) ==
    [exists |-> TRUE, text |-> existing.text \o text]

\* Bun.write(file, text): the file has the text and nothing else.
WriteFile(existing, text) == [exists |-> TRUE, text |-> text]

\* A directory file of an earlier day.
StaleFile ==
    WriteFile(NoFile, Stringify([orgs |-> <<[exchanges |-> <<>>, name |-> "Gone",
                                             orgId |-> "gone", phonebooks |-> <<>>]>>]))

----------------------------------------------------------------------------
(* The generate-telephony command as a process, invoked up to MaxRuns      *)
(* times on the same registry and the same output path.                    *)

MaxRuns == 2

GenInit ==
    /\ \E n \in 0..MaxOrgs :
          \/ \E exLens \in Shapes(n, MaxTelItems) :
                \E prLens \in Shapes(n, MaxTelItems - Sum(exLens, n)) :
                    \E exchanges \in [1..Sum(exLens, n) -> GenExchangePool] :
                        \E prefixList \in [1..Sum(prLens, n) -> GenPrefixPool] :
                            files = GenRegistry(n, exLens, exchanges, prLens, prefixList)
          \/ files \in GenRecordRegistries(n)
    /\ outFile \in {NoFile, StaleFile}
    /\ pc = "generate"
    /\ fileIdx = 1
    /\ directory = <<>>
    /\ run = 1
    /\ written = <<>>
    /\ log = <<>>
    /\ exitStatus = "running"
    /\ orgs = <<>> /\ orgIdx = 1 /\ nodeIdx = 1 /\ addresses = {}
    /\ telPhase = "org" /\ itemIdx = 1 /\ prefixes = {}
    /\ orgExchanges = {} /\ orgPrefixes = {} /\ uncaught = "none"

\* generateTelephonyDirectory up to the loop: the info message and the
\* empty `orgs` array.
GenerateStart ==
    /\ Running /\ pc = "generate"
    /\ log' = Append(log, LogEntry("info", "Checking registry at", ""))
    /\ directory' = <<>>
    /\ fileIdx' = 1
    /\ pc' = "scan"
    /\ UNCHANGED <<files, exitStatus, outFile, run, written>>
    /\ UNCHANGED checkVars

\* One turn of the glob.scan loop: `continue` for a record without a
\* telephony service, else the two Maps, orgs.push and the debug message.
GenerateFile ==
    /\ Running /\ pc = "scan" /\ fileIdx <= Len(files)
    /\ LET org == ParseRecord(files[fileIdx])
       IN  IF ~HasTelephony(org)
           THEN UNCHANGED <<directory, log>>
           ELSE /\ directory' = Append(directory, DirectoryOrg(org))
                /\ log' = Append(log, LogEntry("debug", "Added organization", org.spec.id))
    /\ fileIdx' = fileIdx + 1
    /\ UNCHANGED <<files, pc, exitStatus, outFile, run, written>>
    /\ UNCHANGED checkVars

\* After the loop: the directory is serialized and written; the process
\* ends.
GenerateWrite ==
    /\ Running /\ pc = "scan" /\ fileIdx > Len(files)
    /\ outFile' = WriteFile(outFile, Stringify([orgs |-> directory]))
    /\ written' = Append(written, outFile'.text)
    /\ pc' = "written"
    /\ exitStatus' = "zero"
    /\ UNCHANGED <<files, fileIdx, directory, log, run>>
    /\ UNCHANGED checkVars

\* The command is invoked again: a new process with a new logger, the
\* registry and the output file as the last run left them.
GenerateAgain ==
    /\ pc = "written" /\ run < MaxRuns
    /\ run' = run + 1
    /\ pc' = "generate"
    /\ exitStatus' = "running"
    /\ log' = <<>>
    /\ UNCHANGED <<files, fileIdx, directory, outFile, written>>
    /\ UNCHANGED checkVars

GenNext ==
    \/ GenerateStart
    \/ GenerateFile
    \/ GenerateWrite
    \/ GenerateAgain

GenSpec == GenInit /\ [][GenNext]_vars

----------------------------------------------------------------------------
(* What the claims speak of: the registry as declared, the outcome of the  *)
(* run, and the element a stopped run was examining.                       *)

Terminated == exitStatus # "running"

ErrorsLogged == SelectSeq(log, LAMBDA e : e.level = "error")
WarningsLogged == SelectSeq(log, LAMBDA e : e.level = "warn")
SuccessLogged ==
    \E k \in 1..Len(log) : log[k].msg = "Registry check completed successfully."

\* The check ended with status 0 and the success message.
Succeeded == exitStatus = "zero" /\ SuccessLogged

\* The error of the taxonomy that a logged message reports.
ErrorName(msg) ==
    CASE msg = "Unsupported API version" -> "UnsupportedVersionError"
      [] msg \in {"metadata orgId mismatch", "spec orgId mismatch"} -> "IdentityMismatchError"
      [] msg = "invalid Nebula address" -> "AddressOutOfRangeError"
      [] msg = "duplicate Nebula address found" -> "DuplicateAddressError"
      [] msg = "Nebula certificate not found" -> "MissingCertificateError"
      [] msg \in {"Lighthouse endpoint missing port", "invalid Lighthouse endpoint URL"}
            -> "InvalidEndpointError"
      [] msg = "duplicate Telephony exchange ID found" -> "DuplicateExchangeError"
      [] msg \in {"Exchange address missing port", "invalid Exchange address URL"}
            -> "InvalidExchangeAddressError"
      [] msg = "duplicate Telephony prefix found" -> "DuplicateGlobalPrefixError"
      [] msg = "duplicate Telephony prefix found within organization"
            -> "DuplicateLocalPrefixError"
      [] msg = "Telephony prefix references unknown exchange"
            -> "UnknownExchangeReferenceError"
      [] OTHER -> "none"

\* The check ended with a non-zero status after logging exactly this error.
FailedWith(name) ==
    /\ exitStatus = "nonzero"
    /\ Len(ErrorsLogged) = 1
    /\ ErrorName(ErrorsLogged[1].msg) = name
    /\ ~SuccessLogged

\* The declarations of a record, an absent list read as empty.
NodesOf(org) == IF org.spec.nebula.present THEN org.spec.nebula.nodes ELSE <<>>
ExchangesOf(org) ==
    IF org.spec.telephony.present /\ org.spec.telephony.hasExchanges
    THEN org.spec.telephony.exchanges ELSE <<>>
PrefixesOf(org) ==
    IF org.spec.telephony.present /\ org.spec.telephony.hasPrefixes
    THEN org.spec.telephony.prefixes ELSE <<>>

\* Places <<k, j>>: the j-th node, exchange or prefix of the k-th record.
NodePlaces(reg) ==
    UNION {{<<k, j>> : j \in 1..Len(NodesOf(reg[k]))} : k \in 1..Len(reg)}
ExchangePlaces(reg) ==
    UNION {{<<k, j>> : j \in 1..Len(ExchangesOf(reg[k]))} : k \in 1..Len(reg)}
PrefixPlaces(reg) ==
    UNION {{<<k, j>> : j \in 1..Len(PrefixesOf(reg[k]))} : k \in 1..Len(reg)}

NodeAt(reg, pl) == NodesOf(reg[pl[1]])[pl[2]]
ExchangeAt(reg, pl) == ExchangesOf(reg[pl[1]])[pl[2]]
PrefixAt(reg, pl) == PrefixesOf(reg[pl[1]])[pl[2]]

\* pl comes before the place <<k, j>> in the order of evaluation.
Before(pl, k, j) == pl[1] < k \/ (pl[1] = k /\ pl[2] < j)

\* Two literals denote the same IP address.
SameIP(a, b) ==
    /\ ParseAddress(a).ok /\ ParseAddress(b).ok
    /\ ParseAddress(a).kind = ParseAddress(b).kind
    /\ ParseAddress(a).parts = ParseAddress(b).parts

\* The literal is an address of fd79:7636:1f08:883d::/64.
InBlock(a) ==
    /\ ParseAddress(a).ok
    /\ ParseAddress(a).kind = "ipv6"
    /\ SubSeq(ParseAddress(a).parts, 1, 4) = PrefixGroups

\* host:port with a port that is written and is a port number.
ExplicitPort(hp) == hp.host # "" /\ hp.port \in 0..MaxPortNumber

ExchangeIds(org) == {ExchangesOf(org)[j].id : j \in 1..Len(ExchangesOf(org))}

\* The invariants of the registry that the declarations violate.
Violations(reg) ==
    {"version" : k \in {k \in 1..Len(reg) : reg[k].apiVersion # SupportedApiVersion}}
    \cup {"identity" : k \in {k \in 1..Len(reg) :
              \/ reg[k].metadata.orgId # reg[k].fileName
              \/ reg[k].metadata.orgId # reg[k].spec.id}}
    \cup {"address" : pl \in {pl \in NodePlaces(reg) :
              ~ParseAddress(NodeAt(reg, pl).address).ok}}
    \cup {"range" : pl \in {pl \in NodePlaces(reg) :
              /\ ParseAddress(NodeAt(reg, pl).address).ok
              /\ ~InBlock(NodeAt(reg, pl).address)}}
    \cup {"duplicateAddress" : pl \in {pl \in NodePlaces(reg) :
              \E ql \in NodePlaces(reg) :
                  ql # pl /\ SameIP(NodeAt(reg, pl).address, NodeAt(reg, ql).address)}}
    \cup {"certificate" : pl \in {pl \in NodePlaces(reg) :
              \E c \in 1..Len(NodeAt(reg, pl).certificates) :
                  NodeAt(reg, pl).certificates[c] \notin CertFiles}}
    \cup {"endpoint" : pl \in {pl \in NodePlaces(reg) :
              /\ NodeAt(reg, pl).hasEndpoints
              /\ \E e \in 1..Len(NodeAt(reg, pl).endpoints) :
                     ~ExplicitPort(NodeAt(reg, pl).endpoints[e])}}
    \cup {"duplicateExchange" : pl \in {pl \in ExchangePlaces(reg) :
              \E ql \in ExchangePlaces(reg) :
                  /\ ql # pl /\ ql[1] = pl[1]
                  /\ ExchangeAt(reg, ql).id = ExchangeAt(reg, pl).id}}
    \cup {"exchangeAddress" : pl \in {pl \in ExchangePlaces(reg) :
              ~ExplicitPort(ExchangeAt(reg, pl).address)}}
    \cup {"globalPrefix" : pl \in {pl \in PrefixPlaces(reg) :
              \E ql \in PrefixPlaces(reg) :
                  /\ ql[1] # pl[1]
                  /\ PrefixAt(reg, ql).prefix = PrefixAt(reg, pl).prefix}}
    \cup {"localPrefix" : pl \in {pl \in PrefixPlaces(reg) :
              \E ql \in PrefixPlaces(reg) :
                  /\ ql # pl /\ ql[1] = pl[1]
                  /\ PrefixAt(reg, ql).prefix = PrefixAt(reg, pl).prefix}}
    \cup {"exchangeReference" : pl \in {pl \in PrefixPlaces(reg) :
              PrefixAt(reg, pl).exchange \notin ExchangeIds(reg[pl[1]])}}

\* The run ended while it examined the node, exchange or prefix under the
\* cursor: a step that fails leaves the cursor where it is.
StoppedAtFile == Terminated /\ pc = "load" /\ fileIdx <= Len(files)
StoppedAtNode ==
    /\ Terminated /\ pc = "nebula" /\ orgIdx <= Len(orgs)
    /\ nodeIdx <= Len(NodesOf(orgs[orgIdx]))
StoppedAtExchange ==
    /\ Terminated /\ pc = "telephony" /\ orgIdx <= Len(orgs)
    /\ telPhase = "exchanges" /\ itemIdx <= Len(ExchangesOf(orgs[orgIdx]))
StoppedAtPrefix ==
    /\ Terminated /\ pc = "telephony" /\ orgIdx <= Len(orgs)
    /\ telPhase = "prefixes" /\ itemIdx <= Len(PrefixesOf(orgs[orgIdx]))

----------------------------------------------------------------------------
(* Network addresses.                                                      *)

\* C1: after a successful check no two nodes of the registry declare the
\* same overlay-network address, two literals being the same address when
\* they denote the same IP address; and a registry in which two
\* organizations declare fd79:7636:1f08:883d::1 does not pass, and fails
\* with DuplicateAddressError when that is its only violation.
C1_NoTwoNodesShareAnAddress ==
    /\ Succeeded =>
          \A pl \in NodePlaces(files) : \A ql \in NodePlaces(files) :
              pl # ql => ~SameIP(NodeAt(files, pl).address, NodeAt(files, ql).address)
    /\ (/\ Terminated
        /\ \E pl \in NodePlaces(files) : \E ql \in NodePlaces(files) :
              /\ pl[1] # ql[1]
              /\ NodeAt(files, pl).address = InNet(1)
              /\ NodeAt(files, ql).address = InNet(1))
       => /\ ~Succeeded
          /\ Violations(files) = {"duplicateAddress"} => FailedWith("DuplicateAddressError")

----------------------------------------------------------------------------
(* Telephony prefixes and exchanges.                                       *)

\* C2: after a successful check every dialing prefix of the registry is
\* declared exactly once, within its organization and across organizations;
\* a registry in which two organizations declare prefix "555" does not
\* pass, and fails with DuplicateGlobalPrefixError when that is its only
\* violation.
C2_PrefixesDeclaredOnce ==
    /\ Succeeded =>
          \A pl \in PrefixPlaces(files) : \A ql \in PrefixPlaces(files) :
              pl # ql => PrefixAt(files, pl).prefix # PrefixAt(files, ql).prefix
    /\ (/\ Terminated
        /\ \E pl \in PrefixPlaces(files) : \E ql \in PrefixPlaces(files) :
              /\ pl[1] # ql[1]
              /\ PrefixAt(files, pl).prefix = "555"
              /\ PrefixAt(files, ql).prefix = "555")
       => /\ ~Succeeded
          /\ Violations(files) = {"globalPrefix"} => FailedWith("DuplicateGlobalPrefixError")

\* A successful check of a registry with prefixes in two organizations.
C2_Witness ==
    /\ Succeeded
    /\ \E pl \in PrefixPlaces(files) : \E ql \in PrefixPlaces(files) : pl[1] # ql[1]

\* The only violation of the registry is prefix "555" in two organizations,
\* and the check has ended.
C2_WitnessRejected ==
    /\ Terminated
    /\ Violations(files) = {"globalPrefix"}
    /\ FailedWith("DuplicateGlobalPrefixError")

\* The prefixes declared before the place <<k, j>>, in evaluation order.
PrefixesBefore(reg, k, j) ==
    {PrefixAt(reg, pl).prefix : pl \in {pl \in PrefixPlaces(reg) : Before(pl, k, j)}}

\* C3: after a successful check every prefix names an exchange of its own
\* organization; while the prefixes of an organization are examined the
\* exchange set holds exactly the ids of that organization's exchanges; and
\* a prefix that is no duplicate and names no exchange of its organization
\* fails with UnknownExchangeReferenceError.
C3_PrefixNamesOwnExchange ==
    /\ Succeeded =>
          \A pl \in PrefixPlaces(files) :
              PrefixAt(files, pl).exchange \in ExchangeIds(files[pl[1]])
    /\ (pc = "telephony" /\ orgIdx <= Len(orgs) /\ telPhase = "prefixes")
          => orgExchanges = ExchangeIds(orgs[orgIdx])
    /\ (/\ StoppedAtPrefix
        /\ LET p == PrefixesOf(orgs[orgIdx])[itemIdx]
           IN  /\ p.prefix \notin PrefixesBefore(orgs, orgIdx, itemIdx)
               /\ p.exchange \notin ExchangeIds(orgs[orgIdx]))
       => FailedWith("UnknownExchangeReferenceError")

\* A run stopped at a prefix that names an exchange declared only by
\* another organization.
C3_Witness ==
    /\ StoppedAtPrefix
    /\ FailedWith("UnknownExchangeReferenceError")
    /\ \E k \in 1..Len(orgs) :
          /\ k # orgIdx
          /\ PrefixesOf(orgs[orgIdx])[itemIdx].exchange \in ExchangeIds(orgs[k])

----------------------------------------------------------------------------
(* The steps of the Nebula checker.                                        *)

\* The addresses declared before the place <<k, j>>, in evaluation order.
AddressesBefore(reg, k, j) ==
    {NodeAt(reg, pl).address : pl \in {pl \in NodePlaces(reg) : Before(pl, k, j)}}

\* C4: a node whose address is an IP literal outside
\* fd79:7636:1f08:883d::/64, of either family, makes the check fail with
\* AddressOutOfRangeError when it is the node under examination; after a
\* successful check every declared address lies inside the block.
C4_OutsideBlockIsOutOfRange ==
    /\ Succeeded =>
          \A pl \in NodePlaces(files) : InBlock(NodeAt(files, pl).address)
    /\ (/\ StoppedAtNode
        /\ LET a == NodesOf(orgs[orgIdx])[nodeIdx].address
           IN  ParseAddress(a).ok /\ ~InBlock(a))
       => FailedWith("AddressOutOfRangeError")

\* C5: after a successful check every fingerprint listed by a node has its
\* file among the certificates; a node that passed the address steps and
\* lists a fingerprint without a file fails with MissingCertificateError; a
\* node with an empty certificate list is never the cause of that error.
C5_CertificatesExist ==
    /\ Succeeded =>
          \A pl \in NodePlaces(files) :
              \A c \in 1..Len(NodeAt(files, pl).certificates) :
                  NodeAt(files, pl).certificates[c] \in CertFiles
    /\ (/\ StoppedAtNode
        /\ LET node == NodesOf(orgs[orgIdx])[nodeIdx]
           IN  /\ InBlock(node.address)
               /\ node.address \notin AddressesBefore(orgs, orgIdx, nodeIdx)
               /\ \E c \in 1..Len(node.certificates) :
                      node.certificates[c] \notin CertFiles)
       => FailedWith("MissingCertificateError")
    /\ (StoppedAtNode /\ NodesOf(orgs[orgIdx])[nodeIdx].certificates = <<>>)
       => ~FailedWith("MissingCertificateError")

\* A run stopped at a node whose second fingerprint has no file.
C5_Witness ==
    /\ StoppedAtNode
    /\ FailedWith("MissingCertificateError")
    /\ NodesOf(orgs[orgIdx])[nodeIdx].certificates = <<"fp1", "fp2">>

\* C6: after a successful check the exchange ids of each organization are
\* pairwise distinct; an exchange whose id the same organization declared
\* before fails with DuplicateExchangeError; that error is reported only
\* for an id declared twice within the organization under examination.
C6_ExchangeIdsUniquePerOrg ==
    /\ Succeeded =>
          \A pl \in ExchangePlaces(files) : \A ql \in ExchangePlaces(files) :
              (pl # ql /\ pl[1] = ql[1])
                  => ExchangeAt(files, pl).id # ExchangeAt(files, ql).id
    /\ (/\ StoppedAtExchange
        /\ \E j \in 1..(itemIdx - 1) :
              ExchangesOf(orgs[orgIdx])[j].id = ExchangesOf(orgs[orgIdx])[itemIdx].id)
       => FailedWith("DuplicateExchangeError")
    /\ FailedWith("DuplicateExchangeError") =>
          /\ StoppedAtExchange
          /\ \E j \in 1..(itemIdx - 1) :
                ExchangesOf(orgs[orgIdx])[j].id = ExchangesOf(orgs[orgIdx])[itemIdx].id

\* A successful check of a registry in which two organizations declare the
\* same exchange id.
C6_Witness ==
    /\ Succeeded
    /\ \E pl \in ExchangePlaces(files) : \E ql \in ExchangePlaces(files) :
          pl[1] # ql[1] /\ ExchangeAt(files, pl).id = ExchangeAt(files, ql).id

----------------------------------------------------------------------------
(* The outcome of the run.                                                 *)

\* C7: a run that has ended has ended in one of three ways: status 0 with
\* the success message and no error, status 0 with the empty-registry
\* warning and no success message, or a non-zero status with exactly one
\* logged error and no success message.
C7_OneOfThreeOutcomes ==
    Terminated =>
        \/ /\ exitStatus = "zero" /\ SuccessLogged
           /\ Len(ErrorsLogged) = 0 /\ Len(WarningsLogged) = 0
        \/ /\ exitStatus = "zero" /\ ~SuccessLogged
           /\ Len(ErrorsLogged) = 0 /\ Len(WarningsLogged) = 1
        \/ /\ exitStatus = "nonzero" /\ ~SuccessLogged
           /\ Len(ErrorsLogged) = 1

\* The runs on the registries that violate no invariant.  The runtime runs
\* the command to its end: no step waits on anything but the local file
\* system.
InitValid == Init /\ Violations(files) = {}
FairSpec == InitValid /\ [][Next]_vars /\ WF_vars(Next)

\* C8: the check of a registry that has at least one record and violates
\* no invariant ends with status 0 and the success message.
C8_ValidRegistryPasses ==
    (Len(files) > 0 /\ Violations(files) = {}) ~> Succeeded

\* A successful check of a valid registry of two records that declare both
\* services.
C8_Witness ==
    /\ Succeeded
    /\ Violations(files) = {}
    /\ Len(files) > 1
    /\ \A k \in 1..Len(files) :
          /\ Len(NodesOf(files[k])) > 0
          /\ Len(PrefixesOf(files[k])) > 0

\* C9: with no record file the check runs neither checker and logs no
\* success message, and when it has ended it has logged the warning and
\* left with status 0.
C9_EmptyRegistryWarns ==
    Len(files) = 0 =>
        /\ pc \in {"start", "load"}
        /\ ~SuccessLogged
        /\ Terminated =>
              /\ exitStatus = "zero"
              /\ Len(WarningsLogged) = 1
              /\ Len(ErrorsLogged) = 0

\* The check of an empty registry has ended.
C9_Witness == Len(files) = 0 /\ Terminated

----------------------------------------------------------------------------
(* The record loader.                                                      *)

IdentityMismatch(f) ==
    f.metadata.orgId # f.fileName \/ f.metadata.orgId # f.spec.id

\* C10 as stated: a record file whose identifiers disagree fails with
\* IdentityMismatchError whatever else is wrong in the file.
C10_IdentityErrorWhateverElse ==
    (StoppedAtFile /\ IdentityMismatch(files[fileIdx]))
        => FailedWith("IdentityMismatchError")

\* C10 amended: a record file whose identifiers disagree is never added to
\* the map; the check stops at it, with IdentityMismatchError when its
\* apiVersion is the supported one and with UnsupportedVersionError when it
\* is not.
C10_IdentityErrorAfterVersion ==
    /\ \A k \in 1..(fileIdx - 1) : ~IdentityMismatch(files[k])
    /\ (StoppedAtFile /\ IdentityMismatch(files[fileIdx]))
        => IF files[fileIdx].apiVersion = SupportedApiVersion
           THEN FailedWith("IdentityMismatchError")
           ELSE FailedWith("UnsupportedVersionError")

\* A run stopped at a file with the supported apiVersion whose spec
\* identifier differs from its metadata identifier.
C10_Witness ==
    /\ StoppedAtFile
    /\ files[fileIdx].apiVersion = SupportedApiVersion
    /\ files[fileIdx].metadata.orgId = files[fileIdx].fileName
    /\ files[fileIdx].metadata.orgId # files[fileIdx].spec.id
    /\ FailedWith("IdentityMismatchError")

----------------------------------------------------------------------------
(* The two prefix sets of the telephony checker.                           *)

\* C11: when the only violation of the registry is a prefix that one
\* organization declares twice, the check fails with
\* DuplicateLocalPrefixError.
C11_LocalDuplicateIsLocalError ==
    (Terminated /\ Violations(files) = {"localPrefix"})
        => FailedWith("DuplicateLocalPrefixError")

\* The prefixes the telephony checker has accepted when it stands at the
\* cursor: those of the organizations before orgIdx, and in the loop over
\* the prefixes those of orgIdx before itemIdx.
PrefixesAccepted ==
    IF orgIdx <= Len(orgs) /\ telPhase = "prefixes"
    THEN PrefixesBefore(orgs, orgIdx, itemIdx)
    ELSE PrefixesBefore(orgs, orgIdx, 1)

\* C19: while the telephony checker runs, the prefix set of the
\* organization under examination is a subset of the global prefix set,
\* the global set is the set of the prefixes accepted so far, and the
\* within-organization duplicate error is never logged.
C19_OrgPrefixesWithinGlobal ==
    /\ pc = "telephony" =>
          /\ prefixes = PrefixesAccepted
          /\ telPhase = "prefixes" =>
                /\ orgPrefixes \subseteq prefixes
                /\ orgPrefixes = PrefixesBefore(orgs, orgIdx, itemIdx)
                                    \ PrefixesBefore(orgs, orgIdx, 1)
    /\ \A k \in 1..Len(log) :
          log[k].msg # "duplicate Telephony prefix found within organization"

\* A run stopped at a prefix that its own organization declared before and
\* no other organization declares; the error logged is the global one.
C19_Witness ==
    /\ StoppedAtPrefix
    /\ LET p == PrefixesOf(orgs[orgIdx])[itemIdx].prefix
       IN  /\ p \in orgPrefixes
           /\ p \notin PrefixesBefore(orgs, orgIdx, 1)
    /\ FailedWith("DuplicateGlobalPrefixError")

----------------------------------------------------------------------------
(* Unparseable addresses.                                                  *)

\* C18: a node whose address is no IP literal makes the check end with a
\* non-zero status after logging exactly one error that names the
\* organization of the node.
C18_UnparseableAddressIsLogged ==
    (StoppedAtNode /\ ~ParseAddress(NodesOf(orgs[orgIdx])[nodeIdx].address).ok)
        => /\ exitStatus = "nonzero"
           /\ Len(ErrorsLogged) = 1
           /\ ErrorsLogged[1].subject = orgs[orgIdx].spec.id

----------------------------------------------------------------------------
(* The registry map.                                                       *)

\* C20: the map holds one entry for every record file loaded, in the order
\* of loading, each the record of its file; so when the checkers run the
\* map has as many entries as the registry has files.
C20_MapKeepsEveryRecord ==
    /\ pc \in {"load", "nebula", "telephony", "done"} =>
          /\ Len(orgs) = fileIdx - 1
          /\ \A k \in 1..Len(orgs) :
                /\ orgs[k] = ParseRecord(files[k])
                /\ orgs[k].spec.id = files[k].fileName
    /\ pc \in {"nebula", "telephony", "done"} => Len(orgs) = Len(files)

\* The checkers run on a map of two records.
C20_Witness == pc = "telephony" /\ Len(orgs) = 2 /\ Len(files) = 2

----------------------------------------------------------------------------
(* The three phases of the check.                                          *)

\* The record of a file fails a test of the loader.
LoaderRejects(reg) ==
    \E k \in 1..Len(reg) :
        \/ reg[k].apiVersion # SupportedApiVersion
        \/ reg[k].metadata.orgId # reg[k].fileName
        \/ reg[k].metadata.orgId # reg[k].spec.id

\* A node of the registry fails a test of the network checker: its address
\* is no literal of the block, it repeats the address string of another
\* node, a certificate is missing or a lighthouse endpoint has no port.
NetworkRejects(reg) ==
    \E pl \in NodePlaces(reg) :
        LET node == NodeAt(reg, pl)
        IN  \/ ~InBlock(node.address)
            \/ \E c \in 1..Len(node.certificates) : node.certificates[c] \notin CertFiles
            \/ /\ node.hasEndpoints
               /\ \E e \in 1..Len(node.endpoints) : ~ExplicitPort(node.endpoints[e])
            \/ \E ql \in NodePlaces(reg) :
                  ql # pl /\ NodeAt(reg, ql).address = node.address

\* An exchange or a prefix of the registry fails a test of the telephony
\* checker.
TelephonyRejects(reg) ==
    Violations(reg) \cap {"duplicateExchange", "exchangeAddress", "globalPrefix",
                          "localPrefix", "exchangeReference"} # {}

----------------------------------------------------------------------------
(* The telephony directory: what the written document says, read from its  *)
(* text, against what the record files declare.                            *)

\* The value of a member of a JSON object text.
Member(text, key) == text[CHOOSE k \in 1..Len(text) : text[k][1] = key][2]

\* The organization entries of the document at options.output.
WrittenOrgs == Member(outFile.text, "orgs")

\* The record files that declare a telephony service, in glob.scan order.
TelephonyFiles == SelectSeq(files, LAMBDA f : f.spec.telephony.present)

DeclaredExchanges(f) ==
    IF f.spec.telephony.hasExchanges THEN f.spec.telephony.exchanges ELSE <<>>
DeclaredPrefixes(f) ==
    IF f.spec.telephony.hasPrefixes THEN f.spec.telephony.prefixes ELSE <<>>
DeclaredPhonebook(f) ==
    IF f.spec.telephony.hasPhonebook THEN f.spec.telephony.phonebook ELSE <<>>

\* A run of generate-telephony has written the document.
Generated == pc = "written" /\ Len(WrittenOrgs) = Len(TelephonyFiles)

\* C12: the written organization entry has exactly one exchange entry per
\* declared exchange of its record, in declaration order, each with the
\* id, address, protocol and codecs of that exchange; so as many exchange
\* entries as declared exchanges, also when two of them share an id.
C12_OneEntryPerDeclaredExchange ==
    Generated =>
        \A k \in 1..Len(WrittenOrgs) :
            LET entries == Member(WrittenOrgs[k], "exchanges")
                declared == DeclaredExchanges(TelephonyFiles[k])
            IN  /\ Len(entries) = Len(declared)
                /\ \A j \in 1..Len(declared) :
                      /\ Member(entries[j], "id") = declared[j].id
                      /\ Member(entries[j], "endpoint") = declared[j].address
                      /\ Member(entries[j], "protocol") = declared[j].protocol
                      /\ Member(entries[j], "codecs") = declared[j].codecs

\* The place of the first declaration of a prefix for an exchange id.
FirstDeclared(prefixList, id, prefix) ==
    CHOOSE n \in 1..Len(prefixList) :
        /\ prefixList[n].exchange = id /\ prefixList[n].prefix = prefix
        /\ \A m \in 1..(n - 1) :
              ~(prefixList[m].exchange = id /\ prefixList[m].prefix = prefix)

\* C13: the prefix list of every written exchange entry holds exactly the
\* prefixes its organization declares for the id of the entry, each once,
\* in the order of their first declaration; it is empty when no prefix
\* names the id; every entry has the id of a declared exchange, so a
\* prefix that names no declared exchange is in no list.
C13_PrefixListOfEntry ==
    Generated =>
        \A k \in 1..Len(WrittenOrgs) :
            LET entries == Member(WrittenOrgs[k], "exchanges")
                declared == DeclaredPrefixes(TelephonyFiles[k])
            IN  \A j \in 1..Len(entries) :
                    LET id == Member(entries[j], "id")
                        list == Member(entries[j], "prefixes")
                    IN  /\ \E e \in 1..Len(DeclaredExchanges(TelephonyFiles[k])) :
                              DeclaredExchanges(TelephonyFiles[k])[e].id = id
                        /\ {list[n] : n \in 1..Len(list)}
                              = {declared[n].prefix :
                                    n \in {n \in 1..Len(declared) : declared[n].exchange = id}}
                        /\ \A a \in 1..Len(list) : \A b \in 1..Len(list) :
                              a < b => FirstDeclared(declared, id, list[a])
                                          < FirstDeclared(declared, id, list[b])

\* One organization declares ex1, the prefix "1" for ex1 twice and a
\* prefix for an exchange it does not declare; the list of ex1 is ["1"].
C13_Witness ==
    /\ Generated /\ Len(files) = 1 /\ Len(WrittenOrgs) = 1
    /\ DeclaredPrefixes(files[1]) =
          <<Prefix("1", "ex1"), Prefix("3", "ex9"), Prefix("1", "ex1")>>
    /\ Len(Member(WrittenOrgs[1], "exchanges")) = 1
    /\ Member(Member(WrittenOrgs[1], "exchanges")[1], "prefixes") = <<"1">>

\* C14: the written document has one organization entry for every record
\* with a telephony service and none for the others, in glob.scan order,
\* each with the id, display name and phone book of its record; the run
\* makes no identity, version or cross-record check, so it always ends
\* with status 0 and the document written, without an error logged; for a
\* registry without files the organization list is empty.
C14_OneEntryPerTelephonyRecord ==
    /\ Terminated =>
          /\ pc = "written" /\ exitStatus = "zero" /\ uncaught = "none"
          /\ outFile.exists
          /\ ErrorsLogged = <<>>
    /\ pc = "written" =>
          /\ Len(WrittenOrgs) = Len(TelephonyFiles)
          /\ \A k \in 1..Len(TelephonyFiles) :
                /\ Member(WrittenOrgs[k], "orgId") = TelephonyFiles[k].spec.id
                /\ Member(WrittenOrgs[k], "name") = TelephonyFiles[k].spec.name
                /\ Member(WrittenOrgs[k], "phonebooks") = DeclaredPhonebook(TelephonyFiles[k])
          /\ files = <<>> => WrittenOrgs = <<>>

\* Two records that check-registry rejects, one for its version and both
\* for carrying the same id, the first without a telephony service: the
\* document has the entry of the second.
C14_Witness ==
    /\ Generated /\ Len(files) = 2
    /\ files[1].apiVersion # SupportedApiVersion
    /\ files[1].spec.id = files[2].spec.id
    /\ ~files[1].spec.telephony.present
    /\ Len(WrittenOrgs) = 1
    /\ Member(WrittenOrgs[1], "phonebooks") = <<"book1", "book2">>

\* C15: every run of the command on the unchanged registry writes the same
\* text, whether or not the output file was there before the run, and the
\* file holds that text and nothing of what it held before.
C15_RunsWriteTheSame ==
    /\ \A i \in 1..Len(written) : written[i] = written[1]
    /\ pc = "written" => outFile.exists /\ outFile.text = written[1]

\* The second run has written a document with an organization entry.
C15_Witness ==
    /\ pc = "written" /\ run = 2 /\ Len(written) = 2
    /\ Len(WrittenOrgs) >= 1

----------------------------------------------------------------------------
(* The verdict of check-registry as a function of the registry in its      *)
(* order of evaluation: the loops of checkOrganizations,                   *)
(* checkNebulaService and checkTelephonyService run to their first         *)
(* failing step.                                                           *)

\* The loop over the files: every record passes checkOrganization.
LoaderPasses(reg) == \A k \in 1..Len(reg) : CheckOrganization(reg[k]).kind = "pass"

\* The map after the first n files.
RECURSIVE LoadedMap(_, _)
LoadedMap(reg, n) ==
    IF n = 0 THEN <<>>
    ELSE MapSet(LoadedMap(reg, n - 1), ParseRecord(reg[n]).spec.id, ParseRecord(reg[n]))

\* The nodes of the first k organizations of the map, in order.
RECURSIVE AllNodes(_, _)
AllNodes(m, k) == IF k = 0 THEN <<>> ELSE AllNodes(m, k - 1) \o NodesOf(m[k])

\* checkNebulaService after n nodes: whether it is still running, and the
\* set `addresses`.
RECURSIVE NebulaRun(_, _)
NebulaRun(nodes, n) ==
    IF n = 0 THEN [ok |-> TRUE, seen |-> {}]
    ELSE LET before == NebulaRun(nodes, n - 1)
         IN  IF ~before.ok THEN before
             ELSE IF CheckNode(nodes[n], before.seen).kind = "pass"
             THEN [ok |-> TRUE, seen |-> before.seen \cup {nodes[n].address}]
             ELSE [ok |-> FALSE, seen |-> before.seen]

\* The loop over the exchanges of one organization after n exchanges.
RECURSIVE ExchangesRun(_, _, _)
ExchangesRun(list, start, n) ==
    IF n = 0 THEN [ok |-> TRUE, seen |-> start]
    ELSE LET before == ExchangesRun(list, start, n - 1)
         IN  IF ~before.ok THEN before
             ELSE IF CheckExchange(list[n], before.seen).kind = "pass"
             THEN [ok |-> TRUE, seen |-> before.seen \cup {list[n].id}]
             ELSE [ok |-> FALSE, seen |-> before.seen]

\* The loop over the prefixes of one organization after n prefixes.
RECURSIVE PrefixesRun(_, _, _, _)
PrefixesRun(list, declared, global, n) ==
    IF n = 0 THEN [ok |-> TRUE, global |-> global, inOrg |-> {}]
    ELSE LET before == PrefixesRun(list, declared, global, n - 1)
         IN  IF ~before.ok THEN before
             ELSE IF CheckPrefix(list[n], before.global, before.inOrg, declared).kind = "pass"
             THEN [ok |-> TRUE, global |-> AddPrefix(before.global, list[n].prefix),
                   inOrg |-> before.inOrg \cup {list[n].prefix}]
             ELSE [ok |-> FALSE, global |-> before.global, inOrg |-> before.inOrg]

\* checkTelephonyService after k organizations.
RECURSIVE TelephonyRun(_, _)
TelephonyRun(m, k) ==
    IF k = 0 THEN [ok |-> TRUE, prefixes |-> {}, orgExchanges |-> {}]
    ELSE LET before == TelephonyRun(m, k - 1)
         IN  IF ~before.ok \/ ~m[k].spec.telephony.present THEN before
             ELSE LET ex == ExchangesRun(ExchangesOf(m[k]),
                                         NewOrgExchanges(before.orgExchanges),
                                         Len(ExchangesOf(m[k])))
                      pr == PrefixesRun(PrefixesOf(m[k]), ex.seen, before.prefixes,
                                        Len(PrefixesOf(m[k])))
                  IN  IF ~ex.ok
                      THEN [ok |-> FALSE, prefixes |-> before.prefixes,
                            orgExchanges |-> ex.seen]
                      ELSE [ok |-> pr.ok, prefixes |-> pr.global, orgExchanges |-> ex.seen]

\* checkRegistry: "pass" when the process ends with status 0.
Verdict(reg) ==
    LET m == LoadedMap(reg, Len(reg))
    IN  IF ~LoaderPasses(reg) THEN "fail"
        ELSE IF IsEmptyRegistry(m) THEN "pass"
        ELSE IF ~NebulaRun(AllNodes(m, Len(m)), Len(AllNodes(m, Len(m)))).ok THEN "fail"
        ELSE IF TelephonyRun(m, Len(m)).ok THEN "pass" ELSE "fail"

----------------------------------------------------------------------------
(* Orders of evaluation.                                                   *)

\* The list with the elements at i and j exchanged.
Swap(list, i, j) ==
    [n \in 1..Len(list) |-> IF n = i THEN list[j] ELSE IF n = j THEN list[i] ELSE list[n]]

\* The registry with two neighbouring nodes, exchanges or prefixes of one
\* organization exchanged, and the registry itself.
ListSwaps(reg) ==
    {reg}
    \cup {[reg EXCEPT ![pl[1]].spec.nebula.nodes = Swap(@, pl[2] - 1, pl[2])] :
             pl \in {pl \in NodePlaces(reg) : pl[2] > 1}}
    \cup {[reg EXCEPT ![pl[1]].spec.telephony.exchanges = Swap(@, pl[2] - 1, pl[2])] :
             pl \in {pl \in ExchangePlaces(reg) : pl[2] > 1}}
    \cup {[reg EXCEPT ![pl[1]].spec.telephony.prefixes = Swap(@, pl[2] - 1, pl[2])] :
             pl \in {pl \in PrefixPlaces(reg) : pl[2] > 1}}

\* The orders in which glob.scan may yield n files.
FileOrders(n) ==
    {p \in [1..n -> 1..n] : \A a \in 1..n : \A b \in 1..n : a # b => p[a] # p[b]}

\* The same record files iterated in any order, or with two neighbouring
\* elements of one list exchanged; every order is reached by such steps.
Reorderings(reg) ==
    {[k \in 1..Len(reg) |-> reg[p[k]]] : p \in FileOrders(Len(reg))} \cup ListSwaps(reg)

\* C16: when a run of check-registry has ended, it has ended with status 0
\* exactly if the check passes the same record files in every other order
\* of the files and of the nodes, exchanges and prefixes of an
\* organization: the verdict is the same under all orders.
C16_VerdictWhateverTheOrder ==
    Terminated =>
        \A r \in Reorderings(files) : (exitStatus = "zero") <=> (Verdict(r) = "pass")

\* A run that stopped at a prefix of the second of two different
\* organizations, whose duplicate the checker meets in the first when the
\* files come in the other order.
C16_Witness ==
    /\ StoppedAtPrefix /\ orgIdx = 2 /\ Len(files) = 2
    /\ PrefixesOf(orgs[2])[itemIdx].prefix \in PrefixesBefore(orgs, 2, 1)
    /\ PrefixesOf(orgs[1]) # PrefixesOf(orgs[2])
    /\ Verdict(<<files[2], files[1]>>) = "fail"

====
